---- MODULE Spec2Model ----
(***************************************************************************)
(* The worker-pool orchestrator of the parallel workload:                  *)
(* run() of misc/python/materialize/parallel_workload/parallel_workload.py *)
(* The main thread provisions the databases, builds the worker population, *)
(* starts one thread per worker, monitors the threads, joins them, drops   *)
(* the databases and prints the summary.  The Worker loop itself lives in  *)
(* worker.py and the operations in action.py; they are modelled from the   *)
(* specification (sections 4.2 and 4.3).                                   *)
(***************************************************************************)
EXTENDS Integers, Sequences, FiniteSets, TLC

\* ---------------------------------------------------------------- bounds
\* largest --threads value tried
MaxThreads == 2
\* operations the workers start at most, all together
MaxOps == 2
\* largest --runtime tried, in half reporting periods
MaxRuntimeTicks == 1
\* largest --databases value tried
MaxDatabases == 2
\* seeds tried by the full-run specification are 0..MaxSeed
MaxSeed == 0
\* the modelled random stream has 2^RngBits states
RngBits == 4

\* ------------------------------------------------------ program constants
REPORT_TIME == 10

\* --------------------------------------------------------------- helpers
RngModulus == 2 ^ RngBits
\* the clock advances in steps of half a reporting period
TickLen == REPORT_TIME \div 2

Range(s) == {s[j] : j \in 1..Len(s)}

RECURSIVE SumSeq(_)
SumSeq(s) == IF s = <<>> THEN 0 ELSE s[1] + SumSeq(Tail(s))

RECURSIVE SumOver(_, _)
\* sum of f[x] over the finite set S
SumOver(f, S) ==
    IF S = {} THEN 0
    ELSE LET x == CHOOSE y \in S : TRUE IN f[x] + SumOver(f, S \ {x})

\* ------------------------------------------------------------ settings
ComplexityDDL == "ddl"
ComplexityDML == "dml"
ComplexityRead == "read"
\* a Complexity member run() has no branch for
ComplexityOther == "other-complexity"
Complexities == {ComplexityDDL, ComplexityDML, ComplexityRead, ComplexityOther}

ScenarioRegression == "regression"
ScenarioRename == "rename"
ScenarioCancel == "cancel"
ScenarioKill == "kill"
ScenarioBackupRestore == "backup-restore"
\* a Scenario member run() has no branch for
ScenarioOther == "other-scenario"
Scenarios == {ScenarioRegression, ScenarioRename, ScenarioCancel, ScenarioKill,
              ScenarioBackupRestore, ScenarioOther}

\* ------------------------------------------------------- action catalog
\* the five category lists, in the order run() hands them to choices()
Categories == <<"read", "fetch", "write", "dml_nontrans", "ddl">>

\* action_list.action_classes of each category
ActionClasses(cat) ==
    CASE cat = "read" -> <<"SelectAction">>
      [] cat = "fetch" -> <<"FetchAction">>
      [] cat = "write" -> <<"InsertAction">>
      [] cat = "dml_nontrans" -> <<"DeleteAction">>
      [] cat = "ddl" -> <<"CreateTableAction">>
      [] cat = "cancel" -> <<"CancelAction">>
      [] cat = "kill" -> <<"KillAction">>
      [] cat = "backup-restore" -> <<"BackupRestoreAction">>

\* action_list.weights of each category ([1] for a scenario worker)
ActionWeights(cat) == <<1>>

AllCategories == Range(Categories) \cup {"cancel", "kill", "backup-restore"}
AllClasses == UNION {Range(ActionClasses(c)) : c \in AllCategories}
\* the messages operations list in errors_to_ignore
ErrorKinds == {"canceling statement", "violates constraint"}
HistKeys == ErrorKinds \X AllClasses

\* ------------------------------------------------------ random streams
\* random.Random(n): the state a stream seeded with n starts in
RandomSeeded(n) == (7 * n + 1) % RngModulus
\* the value the stream in state s returns next, as a fraction of RngModulus
RandomValue(s) == s
\* the state of the stream after that draw
RandomAdvance(s) == (5 * s + 3) % RngModulus

\* list(accumulate(weights))
CumWeights(ws) == [j \in 1..Len(ws) |-> SumSeq(SubSeq(ws, 1, j))]

\* faulty variant of Bisect: the comparison is the wrong way round
BisectReversed(cum, r, total, hi) ==
    Cardinality({j \in 1..hi : cum[j] * RngModulus >= r * total})

\* bisect(cum_weights, random() * total, 0, hi): the number of entries of
\* cum[1..hi] that are <= r / RngModulus * total
Bisect(cum, r, total, hi) ==
    Cardinality({j \in 1..hi : cum[j] * RngModulus <= r * total})

\* Random.choices(population, weights)[0] with random() = r / RngModulus
Choices(population, ws, r) ==
    LET cum == CumWeights(ws)
        total == cum[Len(ws)]
    IN population[Bisect(cum, r, total, Len(population) - 1) + 1]

\* --------------------------------------------------------------- state
VARIABLES
    \* arguments of run()
    seed, runtime, complexity, scenario, num_threads, num_databases,
    \* the main thread
    pc,            \* where the main thread is in run()
    raised,        \* the exception that left run(), "none" while none has
    caught,        \* the exception the except clause caught, "none" if none
    failed_thread, \* the thread the fatal branch named, 0 if none
    now,           \* time.time()
    end_time,      \* local end_time of run()
    wake,          \* when the running time.sleep(REPORT_TIME) ends
    database,      \* database[d]: what has been done to databases[d]
    worker_rng,    \* state of the stream worker_rng
    weights,       \* local weights of the slot loop
    workers,       \* the list workers
    threads,       \* the list threads
    idx,           \* position of the running for loop
    num_queries,   \* local num_queries of run()
    ignored_errors,\* local ignored_errors of run()
    num_failures,  \* local num_failures of run()
    printed,       \* whether the summary was printed
    \* the workers
    worker,        \* worker[w]: the fields of Worker w and of its thread
    calls          \* operations started so far

vars == <<seed, runtime, complexity, scenario, num_threads, num_databases,
          pc, raised, caught, failed_thread, now, end_time, wake,
          database, worker_rng, weights, workers, threads, idx, num_queries,
          ignored_errors, num_failures, printed, worker, calls>>

config == <<seed, runtime, complexity, scenario, num_threads, num_databases>>
summary == <<num_queries, ignored_errors, num_failures, printed>>

\* worker ids: slot i of the for loop is worker i, the scenario worker is
\* the one after the last slot
WorkerIds == 1..(MaxThreads + 1)
ScenarioWorkerId == num_threads + 1
DatabaseIds == 1..MaxDatabases

NoHistogram == [key \in HistKeys |-> 0]

\* a Worker that has not been constructed
NoWorker ==
    [state |-> "absent", category |-> "none", end_time |-> 0,
     num_queries |-> 0, ignored_errors |-> NoHistogram,
     system |-> FALSE, action |-> "none",
     forced |-> "no", failed_in_time |-> FALSE]


\* Thread.is_alive() of the thread of worker w
IsAlive(w) == worker[w].state \in {"check", "call"}

\* ------------------------------------------------------------- Init
Tiers == {ComplexityDDL, ComplexityDML, ComplexityRead}
Runtimes == {t * TickLen : t \in 1..MaxRuntimeTicks}

InitState ==
    /\ pc = "start"
    /\ raised = "none"
    /\ caught = "none"
    /\ failed_thread = 0
    /\ now = 0
    /\ end_time = 0
    /\ wake = 0
    /\ database = [d \in DatabaseIds |-> "none"]
    /\ worker_rng = 0
    /\ weights = <<>>
    /\ workers = <<>>
    /\ threads = <<>>
    /\ idx = 0
    /\ num_queries = 0
    /\ ignored_errors = NoHistogram
    /\ num_failures = 0
    /\ printed = FALSE
    /\ worker = [w \in WorkerIds |-> NoWorker]
    /\ calls = 0

Init ==
    /\ seed \in 0..MaxSeed
    /\ runtime \in Runtimes
    /\ complexity \in Complexities
    /\ scenario \in Scenarios
    /\ num_threads \in 1..MaxThreads
    /\ num_databases \in 1..MaxDatabases
    \* several databases are tried with a single slot
    /\ num_databases = 1 \/ num_threads = 1
    /\ InitState

\* an exception leaves run(): nothing after the raise is executed
Raise(exception) ==
    /\ pc' = "raised"
    /\ raised' = exception

\* --------------------------------------------- bootstrap, provisioning
\* lines 67-83: seed the streams, fix the deadline, build the Database objects
Start ==
    /\ pc = "start"
    /\ end_time' = now + runtime
    /\ database' = [d \in DatabaseIds |->
                        IF d <= num_databases THEN "object" ELSE "none"]
    /\ pc' = "bootstrap"
    /\ UNCHANGED <<config, calls, caught, summary, raised, failed_thread,
                   now, wake, worker_rng, weights, workers, threads, idx,
                   worker>>

\* lines 85-138: the ALTER SYSTEM statements; any of them may raise
Bootstrap ==
    /\ pc = "bootstrap"
    /\ \E ok \in BOOLEAN :
          IF ok THEN pc' = "provision" /\ idx' = 1 /\ raised' = raised
          ELSE Raise("QueryError") /\ idx' = idx
    /\ UNCHANGED <<config, calls, caught, summary, failed_thread, now,
                   end_time, wake, database, worker_rng, weights, workers,
                   threads, worker>>

\* line 140: database.create(system_exe)
CreateDatabase ==
    /\ pc = "provision"
    /\ idx <= num_databases
    /\ database[idx] = "object"
    /\ \E ok \in BOOLEAN :
          IF ok
          THEN /\ database' = [database EXCEPT ![idx] = "created"]
               /\ UNCHANGED <<pc, raised>>
          ELSE Raise("QueryError") /\ database' = database
    /\ UNCHANGED <<config, calls, caught, summary, failed_thread, now,
                   end_time, wake, worker_rng, weights, workers, threads,
                   idx, worker>>

\* lines 142-151: database.create_relations(...) on a connection of its own
CreateRelations ==
    /\ pc = "provision"
    /\ idx <= num_databases
    /\ database[idx] = "created"
    /\ \E ok \in BOOLEAN :
          IF ok
          THEN /\ database' = [database EXCEPT ![idx] = "provisioned"]
               /\ idx' = idx + 1
               /\ UNCHANGED <<pc, raised>>
          ELSE Raise("QueryError") /\ UNCHANGED <<database, idx>>
    /\ UNCHANGED <<config, calls, caught, summary, failed_thread, now,
                   end_time, wake, worker_rng, weights, workers, threads,
                   worker>>

\* lines 79 and 156: rng = Random(random.randrange(..)) after random.seed(seed),
\* worker_rng = Random(rng.randrange(..)): the stream worker_rng starts in a
\* state that is a function of the seed
WorkerRngSeeded(s) ==
    RandomSeeded(RandomValue(RandomSeeded(RandomValue(RandomSeeded(s)))))

\* faulty variant of EndProvisioning: the loop is left after the first database
EndProvisioningEarly ==
    /\ pc = "provision"
    /\ idx > 1
    /\ workers' = <<>>
    /\ threads' = <<>>
    /\ worker_rng' = WorkerRngSeeded(seed)
    /\ idx' = 1
    /\ pc' = "construct"
    /\ UNCHANGED <<config, calls, caught, summary, raised, failed_thread,
                   now, end_time, wake, database, weights, worker>>

\* lines 152-156: the databases are there; the population starts empty
EndProvisioning ==
    /\ pc = "provision"
    /\ idx > num_databases
    /\ workers' = <<>>
    /\ threads' = <<>>
    /\ worker_rng' = WorkerRngSeeded(seed)
    /\ idx' = 1
    /\ pc' = "construct"
    /\ UNCHANGED <<config, calls, caught, summary, raised, failed_thread,
                   now, end_time, wake, database, weights, worker>>

\* ------------------------------------------- population construction
\* faulty variant of Weights: the reduced tier keeps the ddl weight
WeightsKeepDdl(c) ==
    CASE c = ComplexityDDL -> <<60, 30, 30, 30, 10>>
      [] c = ComplexityDML -> <<60, 30, 30, 30, 10>>
      [] c = ComplexityRead -> <<60, 30, 0, 0, 0>>

\* lines 159-166: the category weights of a complexity tier
Weights(c) ==
    CASE c = ComplexityDDL -> <<60, 30, 30, 30, 10>>
      [] c = ComplexityDML -> <<60, 30, 30, 30, 0>>
      [] c = ComplexityRead -> <<60, 30, 0, 0, 0>>

\* Worker(rng, actions, weights, end_time, autocommit, system)
NewWorker(cat, deadline, sys) ==
    [NoWorker EXCEPT !.state = "constructed", !.category = cat,
                     !.end_time = deadline, !.system = sys]

\* faulty variant of ConstructWorker: the tier is looked at from the second
\* slot on, the first slot falls back to the full tier
ConstructWorkerLateCheck ==
    /\ pc = "construct"
    /\ idx <= num_threads
    /\ IF complexity \in Tiers \/ idx = 1
       THEN /\ weights' = IF complexity \in Tiers THEN Weights(complexity)
                          ELSE Weights(ComplexityDDL)
            /\ worker' = [worker EXCEPT ![idx] =
                  NewWorker(Choices(Categories, weights',
                                    RandomValue(worker_rng)),
                            end_time, FALSE)]
            /\ worker_rng' = RandomAdvance(worker_rng)
            /\ workers' = Append(workers, idx)
            /\ pc' = "start_thread"
            /\ raised' = raised
       ELSE /\ Raise("ValueError")
            /\ UNCHANGED <<weights, worker, worker_rng, workers>>
    /\ UNCHANGED <<config, calls, caught, summary, failed_thread, now,
                   end_time, wake, database, threads, idx>>

\* lines 157-192: slot idx draws its category from worker_rng and builds its
\* Worker; an unknown complexity raises
ConstructWorker ==
    /\ pc = "construct"
    /\ idx <= num_threads
    /\ IF complexity \in Tiers
       THEN /\ weights' = Weights(complexity)
            /\ worker' = [worker EXCEPT ![idx] =
                  NewWorker(Choices(Categories, weights',
                                    RandomValue(worker_rng)),
                            end_time, FALSE)]
            /\ worker_rng' = RandomAdvance(worker_rng)
            /\ workers' = Append(workers, idx)
            /\ pc' = "start_thread"
            /\ raised' = raised
       ELSE /\ Raise("ValueError")
            /\ UNCHANGED <<weights, worker, worker_rng, workers>>
    /\ UNCHANGED <<config, calls, caught, summary, failed_thread, now,
                   end_time, wake, database, threads, idx>>

\* lines 194-200: the thread of slot idx starts running worker.run
StartThread ==
    /\ pc = "start_thread"
    /\ worker' = [worker EXCEPT ![idx].state = "check"]
    /\ threads' = Append(threads, idx)
    /\ idx' = idx + 1
    /\ pc' = "construct"
    /\ UNCHANGED <<config, calls, caught, summary, raised, failed_thread,
                   now, end_time, wake, database, worker_rng, weights,
                   workers>>

\* line 157: the slot loop is over
EndConstruct ==
    /\ pc = "construct"
    /\ idx > num_threads
    /\ pc' = "scenario"
    /\ UNCHANGED <<config, calls, caught, summary, raised, failed_thread,
                   now, end_time, wake, database, worker_rng, weights,
                   workers, threads, idx, worker>>

\* the category of the extra worker of a scenario
ScenarioCategory(s) ==
    CASE s = ScenarioCancel -> "cancel"
      [] s = ScenarioKill -> "kill"
      [] s = ScenarioBackupRestore -> "backup-restore"

\* lines 202-211, 219-229, 237-247, 255-258: the scenario worker is built and
\* appended to workers; kill and backup-restore assert the composition, the
\* argument of run() that is read here and nowhere else
ConstructScenario ==
    /\ pc = "scenario"
    /\ \E composition \in BOOLEAN :
        IF scenario = ScenarioCancel
           \/ (scenario \in {ScenarioKill, ScenarioBackupRestore}
               /\ composition)
        THEN /\ worker' = [worker EXCEPT ![ScenarioWorkerId] =
                   NewWorker(ScenarioCategory(scenario), end_time,
                             scenario = ScenarioCancel)]
             /\ workers' = Append(workers, ScenarioWorkerId)
             /\ pc' = "start_scenario"
             /\ raised' = raised
        ELSE /\ UNCHANGED <<worker, workers>>
             /\ IF scenario \in {ScenarioKill, ScenarioBackupRestore}
                THEN Raise("AssertionError")
                ELSE IF scenario \in {ScenarioRegression, ScenarioRename}
                THEN pc' = "monitor" /\ raised' = raised
                ELSE Raise("ValueError")
    /\ UNCHANGED <<config, calls, caught, summary, failed_thread, now,
                   end_time, wake, database, worker_rng, weights, threads,
                   idx>>

\* faulty variant of StartScenario: the started thread is not put on the list
StartScenarioUnlisted ==
    /\ pc = "start_scenario"
    /\ worker' = [worker EXCEPT ![ScenarioWorkerId].state = "check"]
    /\ pc' = "monitor"
    /\ UNCHANGED <<config, calls, caught, summary, raised, failed_thread,
                   now, end_time, wake, database, worker_rng, weights,
                   workers, threads, idx>>

\* lines 212-218, 230-236, 248-254: the scenario thread starts
StartScenario ==
    /\ pc = "start_scenario"
    /\ worker' = [worker EXCEPT ![ScenarioWorkerId].state = "check"]
    /\ threads' = Append(threads, ScenarioWorkerId)
    /\ pc' = "monitor"
    /\ UNCHANGED <<config, calls, caught, summary, raised, failed_thread,
                   now, end_time, wake, database, worker_rng, weights,
                   workers, idx>>


\* --------------------------------------------------------- monitoring
\* faulty variant of Caught: a bare except clause
CaughtAny(exception) == TRUE

\* line 278: except KeyboardInterrupt
Caught(exception) == exception = "KeyboardInterrupt"

\* faulty variant of ForcedDeadline: the deadline is pushed back by a reporting period
ForcedDeadlineLater(t) == t + REPORT_TIME

\* faulty variant of ForcedDeadline: the deadline of run() is written back
ForcedDeadlineKept(t) == end_time

\* worker.end_time = time.time(), written by the main thread
ForcedDeadline(t) == t

\* the worker at position idx of workers gets its deadline forced by `by`
ForceDeadline(by) ==
    worker' = [worker EXCEPT ![workers[idx]].end_time = ForcedDeadline(now),
                             ![workers[idx]].forced = by]

\* line 262: while time.time() < end_time
MonitorLoop ==
    /\ pc = "monitor"
    /\ pc' = IF now < end_time THEN "alive" ELSE "join"
    /\ UNCHANGED <<config, calls, caught, summary, raised, failed_thread,
                   now, end_time, wake, database, worker_rng, weights,
                   workers, threads, idx, worker>>

\* the threads of the list that are not alive
DeadThreads == {j \in 1..Len(threads) : ~IsAlive(threads[j])}

\* lines 263-264 and 268: the first thread of the list that is not alive sends
\* the monitor into the fatal branch; with all alive it sleeps
CheckAlive ==
    /\ pc = "alive"
    /\ IF DeadThreads # {}
       THEN /\ failed_thread' =
                   threads[CHOOSE j \in DeadThreads :
                               \A k \in DeadThreads : j <= k]
            /\ pc' = "fatal"
            /\ idx' = 1
            /\ wake' = wake
       ELSE /\ wake' = now + REPORT_TIME
            /\ pc' = "sleep"
            /\ UNCHANGED <<failed_thread, idx>>
    /\ UNCHANGED <<config, calls, caught, summary, raised, now, end_time,
                   database, worker_rng, weights, workers, threads, worker>>

\* lines 265-266: one deadline is forced to the current time
FatalForce ==
    /\ pc = "fatal"
    /\ idx <= Len(workers)
    /\ ForceDeadline("fatal")
    /\ idx' = idx + 1
    /\ UNCHANGED <<config, calls, caught, summary, pc, raised, failed_thread,
                   now, end_time, wake, database, worker_rng, weights,
                   workers, threads>>

\* line 267: raise Exception("Thread ... failed, exiting"); the except clause
\* of line 278 does not catch it, so it leaves run()
FatalRaise ==
    /\ pc = "fatal"
    /\ idx > Len(workers)
    /\ IF Caught("ThreadFailed")
       THEN /\ caught' = "ThreadFailed"
            /\ pc' = "interrupted"
            /\ idx' = 1
            /\ raised' = raised
       ELSE Raise("ThreadFailed") /\ UNCHANGED <<idx, caught>>
    /\ UNCHANGED <<config, calls, summary, failed_thread, now, end_time,
                   wake, database, worker_rng, weights, workers, threads,
                   worker>>

\* line 268: time.sleep(REPORT_TIME) returns
Wake ==
    /\ pc = "sleep"
    /\ now >= wake
    /\ pc' = "report"
    /\ UNCHANGED <<config, calls, caught, summary, raised, failed_thread,
                   now, end_time, wake, database, worker_rng, weights,
                   workers, threads, idx, worker>>

\* lines 269-277: print the rates, add every counter to num_queries, reset it
Report ==
    /\ pc = "report"
    /\ num_queries' = num_queries
           + SumOver([w \in Range(workers) |-> worker[w].num_queries],
                     Range(workers))
    /\ worker' = [w \in WorkerIds |->
                    IF w \in Range(workers)
                    THEN [worker[w] EXCEPT !.num_queries = 0]
                    ELSE worker[w]]
    /\ pc' = "monitor"
    /\ UNCHANGED <<config, calls, caught, raised, failed_thread, now,
                   end_time, wake, database, worker_rng, weights, workers,
                   threads, idx, ignored_errors, num_failures, printed>>

\* the statements inside the try block, lines 262-277
InTry == pc \in {"monitor", "alive", "fatal", "sleep", "report"}

\* line 278: a KeyboardInterrupt reaches the main thread inside the try block
\* and is caught; one that arrives outside of it is not followed
Interrupt ==
    /\ InTry
    /\ Caught("KeyboardInterrupt")
    /\ caught' = "KeyboardInterrupt"
    /\ pc' = "interrupted"
    /\ idx' = 1
    /\ UNCHANGED <<config, calls, summary, raised, failed_thread, now,
                   end_time, wake, database, worker_rng, weights, workers,
                   threads, worker>>

\* lines 280-281: the handler forces one deadline to the current time
InterruptForce ==
    /\ pc = "interrupted"
    /\ idx <= Len(workers)
    /\ ForceDeadline("interrupt")
    /\ idx' = idx + 1
    /\ UNCHANGED <<config, calls, caught, summary, pc, raised, failed_thread,
                   now, end_time, wake, database, worker_rng, weights,
                   workers, threads>>

\* faulty variant of InterruptEnd: the handler stops after the first worker
InterruptEndEarly ==
    /\ pc = "interrupted"
    /\ idx > 1
    /\ pc' = "join"
    /\ idx' = 1
    /\ UNCHANGED <<config, calls, caught, summary, raised, failed_thread,
                   now, end_time, wake, database, worker_rng, weights,
                   workers, threads, worker>>

\* line 281: the handler is done, run() goes on after the try statement
InterruptEnd ==
    /\ pc = "interrupted"
    /\ idx > Len(workers)
    /\ pc' = "join"
    /\ idx' = 1
    /\ UNCHANGED <<config, calls, caught, summary, raised, failed_thread,
                   now, end_time, wake, database, worker_rng, weights,
                   workers, threads, worker>>

\* ------------------------------------------------- shutdown, teardown
\* faulty variant of Join: only the first thread of the list is waited for
JoinFirst ==
    /\ pc = "join"
    /\ threads # <<>> => ~IsAlive(threads[1])
    /\ pc' = "teardown"
    /\ idx' = 1
    /\ UNCHANGED <<config, calls, caught, summary, raised, failed_thread,
                   now, end_time, wake, database, worker_rng, weights,
                   workers, threads, worker>>

\* lines 283-286: thread.join() returns once the thread is not alive; the loop
\* is over when every thread of the list has been joined
Join ==
    /\ pc = "join"
    /\ \A j \in 1..Len(threads) : ~IsAlive(threads[j])
    /\ pc' = "teardown"
    /\ idx' = 1
    /\ UNCHANGED <<config, calls, caught, summary, raised, failed_thread,
                   now, end_time, wake, database, worker_rng, weights,
                   workers, threads, worker>>

\* lines 289-291: database.drop(...); it may raise
DropDatabase ==
    /\ pc = "teardown"
    /\ idx <= num_databases
    /\ \E ok \in BOOLEAN :
          IF ok
          THEN /\ database' = [database EXCEPT ![idx] = "dropped"]
               /\ idx' = idx + 1
               /\ UNCHANGED <<pc, raised>>
          ELSE Raise("QueryError") /\ UNCHANGED <<database, idx>>
    /\ UNCHANGED <<config, calls, caught, summary, failed_thread, now,
                   end_time, wake, worker_rng, weights, workers, threads,
                   worker>>

\* faulty variant of EndTeardown: the loop is left after the first database
EndTeardownEarly ==
    /\ pc = "teardown"
    /\ idx > 1
    /\ pc' = "aggregate"
    /\ idx' = 1
    /\ ignored_errors' = NoHistogram
    /\ num_failures' = 0
    /\ UNCHANGED <<config, calls, caught, num_queries, printed, raised,
                   failed_thread, now, end_time, wake, database, worker_rng,
                   weights, workers, threads, worker>>

\* lines 292-295
EndTeardown ==
    /\ pc = "teardown"
    /\ idx > num_databases
    /\ pc' = "aggregate"
    /\ idx' = 1
    /\ ignored_errors' = NoHistogram
    /\ num_failures' = 0
    /\ UNCHANGED <<config, calls, caught, num_queries, printed, raised,
                   failed_thread, now, end_time, wake, database, worker_rng,
                   weights, workers, threads, worker>>

\* faulty variant of CounterUpdate: dict.update, the counts of counter replace those
\* held
CounterReplace(held, counter) ==
    [key \in HistKeys |-> IF counter[key] > 0 THEN counter[key] ELSE held[key]]

\* Counter.update(counter): the counts of counter are added to those held
CounterUpdate(held, counter) ==
    [key \in HistKeys |-> held[key] + counter[key]]

\* lines 296-298: the histogram of one worker goes into the combined one
Aggregate ==
    /\ pc = "aggregate"
    /\ idx <= Len(workers)
    /\ ignored_errors' =
           CounterUpdate(ignored_errors, worker[workers[idx]].ignored_errors)
    /\ idx' = idx + 1
    /\ UNCHANGED <<config, calls, caught, num_queries, num_failures, printed,
                   pc, raised, failed_thread, now, end_time, wake, database,
                   worker_rng, weights, workers, threads, worker>>

\* lines 299-301: num_failures is the sum of the counts of the combined
\* histogram
CountFailures ==
    /\ pc = "aggregate"
    /\ idx > Len(workers)
    /\ num_failures' = SumOver(ignored_errors, HistKeys)
    /\ pc' = "summary"
    /\ UNCHANGED <<config, calls, caught, num_queries, ignored_errors,
                   printed, raised, failed_thread, now, end_time, wake,
                   database, worker_rng, weights, workers, threads, idx,
                   worker>>

\* lines 303-311: the summary is printed and run() returns
PrintSummary ==
    /\ pc = "summary"
    /\ printed' = TRUE
    /\ pc' = "done"
    /\ UNCHANGED <<config, calls, caught, num_queries, ignored_errors,
                   num_failures, raised, failed_thread, now, end_time, wake,
                   database, worker_rng, weights, workers, threads, idx,
                   worker>>

\* ------------------------------------------------------------ workers
main == <<pc, raised, failed_thread, end_time, wake, database, weights,
          workers, threads, idx>>

\* top of an iteration of Worker.run: past the deadline the worker stops,
\* before it the worker draws an operation from its stream and calls it
WorkerCheck(w) ==
    /\ worker[w].state = "check"
    /\ IF now < worker[w].end_time
       THEN /\ calls < MaxOps
            /\ calls' = calls + 1
            /\ worker' = [worker EXCEPT
                  ![w].state = "call",
                  ![w].action =
                      Choices(ActionClasses(worker[w].category),
                              ActionWeights(worker[w].category),
                              RandomValue(worker_rng))]
            /\ worker_rng' = RandomAdvance(worker_rng)
       ELSE /\ worker' = [worker EXCEPT ![w].state = "stopped"]
            /\ UNCHANGED <<worker_rng, calls>>
    /\ UNCHANGED <<config, caught, summary, main, now>>

\* the operation in flight succeeds: the live counter goes up
WorkerSuccess(w) ==
    /\ worker[w].state = "call"
    /\ worker' = [worker EXCEPT ![w].state = "check",
                                ![w].action = "none",
                                ![w].num_queries = @ + 1]
    /\ UNCHANGED <<config, calls, caught, summary, main, now, worker_rng>>

\* the operation in flight raises an error it lists as ignored: the histogram
\* entry of (error kind, operation class) goes up
WorkerIgnoredError(w) ==
    /\ worker[w].state = "call"
    /\ \E kind \in ErrorKinds :
          worker' = [worker EXCEPT
              ![w].state = "check",
              ![w].action = "none",
              ![w].ignored_errors[<<kind, worker[w].action>>] = @ + 1]
    /\ UNCHANGED <<config, calls, caught, summary, main, now, worker_rng>>

\* the operation in flight raises any other error: the thread terminates
WorkerFail(w) ==
    /\ worker[w].state = "call"
    /\ worker' = [worker EXCEPT ![w].state = "failed",
                                ![w].action = "none",
                                ![w].failed_in_time = (now < end_time)]
    /\ UNCHANGED <<config, calls, caught, summary, main, now, worker_rng>>

\* -------------------------------------------------------------- clock
\* time passes; the clock is followed while somebody still waits for it: the
\* deadline is ahead or the monitor sleeps
Tick ==
    /\ pc # "start"
    /\ now < end_time \/ (pc = "sleep" /\ now < wake)
    /\ now' = now + TickLen
    /\ UNCHANGED <<config, calls, caught, summary, main, worker_rng, worker>>

\* ---------------------------------------------------------------- Next
Build ==
    \/ Start
    \/ Bootstrap
    \/ CreateDatabase
    \/ CreateRelations
    \/ EndProvisioning
    \/ ConstructWorker
    \/ StartThread
    \/ EndConstruct
    \/ ConstructScenario
    \/ StartScenario

Monitor ==
    \/ MonitorLoop
    \/ CheckAlive
    \/ FatalForce
    \/ FatalRaise
    \/ Wake
    \/ Report
    \/ Interrupt
    \/ InterruptForce
    \/ InterruptEnd

Finish ==
    \/ Join
    \/ DropDatabase
    \/ EndTeardown
    \/ Aggregate
    \/ CountFailures
    \/ PrintSummary

Work ==
    \E w \in WorkerIds :
        \/ WorkerCheck(w)
        \/ WorkerSuccess(w)
        \/ WorkerIgnoredError(w)
        \/ WorkerFail(w)

Next == Build \/ Monitor \/ Finish \/ Work \/ Tick

\* the whole of run(), for the seeds 0..MaxSeed
Spec == Init /\ [][Next]_vars

\* population construction for every seed: run() up to the monitor loop, with
\* the started workers drawing their first operations meanwhile
InitBuild ==
    /\ seed \in 0..(RngModulus - 1)
    /\ runtime \in Runtimes
    /\ complexity \in Complexities
    /\ scenario \in Scenarios
    /\ num_threads \in 1..MaxThreads
    /\ num_databases \in 1..MaxDatabases
    /\ InitState

Draw == \E w \in WorkerIds : WorkerCheck(w)

NextBuild == Build \/ Draw

SpecBuild == InitBuild /\ [][NextBuild]_vars

\* the steps of the main thread other than the arrival of an interrupt
MainStep ==
    \/ Build
    \/ MonitorLoop
    \/ CheckAlive
    \/ FatalForce
    \/ FatalRaise
    \/ Wake
    \/ Report
    \/ InterruptForce
    \/ InterruptEnd
    \/ Finish

\* the steps of the thread of worker w
WorkerStep(w) ==
    \/ WorkerCheck(w)
    \/ WorkerSuccess(w)
    \/ WorkerIgnoredError(w)
    \/ WorkerFail(w)

\* a run of one slot, with or without the worker of the cancel scenario
InitFair ==
    /\ seed \in 0..MaxSeed
    /\ runtime \in Runtimes
    /\ complexity \in Tiers
    /\ scenario \in {ScenarioRegression, ScenarioCancel}
    /\ num_threads = 1
    /\ num_databases = 1
    /\ InitState

\* the scheduler lets every thread that can take a step take one in the end,
\* every statement and every call in flight returns, and the clock goes on
Fairness ==
    /\ WF_vars(MainStep)
    /\ \A w \in WorkerIds : WF_vars(WorkerStep(w))
    /\ WF_vars(Tick)

\* run() under a fair scheduler
SpecFair == InitFair /\ [][Next]_vars /\ Fairness


\* ============================================================== claims
Constructed(w) == worker[w].state # "absent"
Forced(w) == worker[w].forced # "no"
Interrupted == \E w \in WorkerIds : worker[w].forced = "interrupt"
\* the path of run() after the try statement: join, teardown, summary
NormalPath == pc \in {"join", "teardown", "aggregate", "summary", "done"}
\* the worker of the scenario, when the scenario has added one
HasScenarioWorker == Len(workers) = num_threads + 1
\* what is left of the running time of worker w
Remaining(w) ==
    IF worker[w].end_time > now THEN worker[w].end_time - now ELSE 0

\* C1: once a worker thread has terminated with an unrecognized error before
\* the deadline of the run, run() never gets to join, teardown or summary: it
\* ends in the fatal branch.  Stated for the runs no interrupt reaches.
C1_FailedWorkerNeverNormalPath ==
    (/\ \E w \in WorkerIds :
           worker[w].state = "failed" /\ worker[w].failed_in_time
     /\ ~Interrupted)
    => ~NormalPath

\* C2: the fatal branch leaves run() with the exception naming the thread only
\* after every worker of the population, scenario worker included, has had the
\* current time written to its deadline; once raised, run() joins no thread,
\* drops no database and prints no summary.
C2_FatalForcesAllThenRaises ==
    [][/\ (pc = "fatal" /\ idx' = idx + 1)
            => /\ worker'[workers[idx]].end_time = now
               /\ worker'[workers[idx]].forced = "fatal"
       /\ (pc = "fatal" /\ pc' # "fatal")
            => \/ pc' = "interrupted" /\ caught' = "KeyboardInterrupt"
               \/ /\ pc' = "raised"
                  /\ raised' = "ThreadFailed"
                  /\ failed_thread \in Range(threads)
                  /\ \A w \in WorkerIds :
                        Constructed(w) => /\ worker[w].forced = "fatal"
                                          /\ worker[w].end_time <= now
       /\ raised = "ThreadFailed"
            => /\ pc = "raised" /\ pc' = "raised"
               /\ ~printed /\ ~printed'
               /\ database' = database
               /\ \A d \in DatabaseIds : database[d] # "dropped"]_vars

\* C2 witness: the fatal branch has raised in a run with a scenario worker, and
\* base and scenario workers alike have their deadlines forced
C2_Witness ==
    /\ raised = "ThreadFailed"
    /\ HasScenarioWorker
    /\ \A w \in Range(workers) : worker[w].forced = "fatal"

C4_ForcedWorkerStops ==
    [][\A w \in WorkerIds :
          Forced(w) =>
             /\ worker[w].end_time <= now
             /\ worker[w].state = "check"
                   => worker'[w].state \in {"check", "stopped"}
             /\ worker[w].state = "call"
                   => worker'[w].state \in {"call", "check", "failed"}
             /\ worker[w].state = "stopped" => worker'[w].state = "stopped"
             /\ (worker[w].state = "check" /\ worker'[w] # worker[w]
                    /\ worker'[w].forced = worker[w].forced
                    /\ worker'[w].num_queries = worker[w].num_queries
                    /\ worker'[w].end_time = worker[w].end_time)
                   => worker'[w].state = "stopped"]_vars

\* C4 witness: a deadline is forced before the deadline of run() while the
\* worker has a call in flight, and another forced worker has stopped
C4_Witness ==
    /\ \E w \in WorkerIds :
          Forced(w) /\ worker[w].state = "call" /\ now < end_time
    /\ \E w \in WorkerIds : Forced(w) /\ worker[w].state = "stopped"

\* C5: when run() raises for a scenario it does not know, no thread has been
\* started.
C5_UnknownScenarioBeforeThreads ==
    (scenario = ScenarioOther /\ raised = "ValueError")
    => /\ threads = <<>>
       /\ \A w \in WorkerIds : worker[w].state \in {"absent", "constructed"}

\* the workers the cancel operation picks its target from: CancelAction is
\* handed the list workers itself (line 205), and the cancel worker is appended
\* to that list (line 211)
CancelTargets ==
    IF scenario = ScenarioCancel /\ Constructed(ScenarioWorkerId)
    THEN Range(workers)
    ELSE {}

\* C6: the cancel worker is never among the workers its operation can pick.
C6_CancelNeverTargetsItself == ScenarioWorkerId \notin CancelTargets

RECURSIVE RandomAfter(_, _)
\* the state of a stream n draws after state s
RandomAfter(s, n) ==
    IF n = 0 THEN s ELSE RandomAfter(RandomAdvance(s), n - 1)

\* the category slot i gets when nothing but the slot loop draws from
\* worker_rng
SeedCategory(i) ==
    Choices(Categories, Weights(complexity),
            RandomValue(RandomAfter(WorkerRngSeeded(seed), i - 1)))

\* C7: the category of every slot is the one the seed and the configuration
\* fix, whatever the started threads have drawn in the meantime.
C7_CategoriesFromSeedAlone ==
    \A i \in 1..MaxThreads :
        (i <= num_threads /\ Constructed(i))
            => worker[i].category = SeedCategory(i)

\* C8 as claimed: the weight vector in use sums to the total of every tier, and
\* its ddl entry is zero for the reduced and the read-only tier.
C8_SameTotalEveryTier ==
    weights # <<>> =>
        /\ \A c \in Tiers : SumSeq(weights) = SumSeq(Weights(c))
        /\ complexity \in {ComplexityDML, ComplexityRead} => weights[5] = 0

\* the totals of the three vectors
TierTotal(c) ==
    CASE c = ComplexityDDL -> 160
      [] c = ComplexityDML -> 150
      [] c = ComplexityRead -> 90

\* C8 amended: the weight vector in use has five entries and sums to 160 for
\* the full tier, 150 for the reduced tier and 90 for the read-only tier; its
\* ddl entry is zero for the reduced and the read-only tier.
C8_TotalPerTier ==
    weights # <<>> =>
        /\ Len(weights) = 5
        /\ SumSeq(weights) = TierTotal(complexity)
        /\ complexity \in {ComplexityDML, ComplexityRead} => weights[5] = 0
        /\ complexity = ComplexityDDL => weights[5] # 0

\* C8 witness: a slot of a reduced-tier run has its weight vector
C8_Witness ==
    /\ complexity = ComplexityDML
    /\ weights # <<>>
    /\ Constructed(1)

\* the position of a category in the list handed to choices()
CategoryIndex(cat) == CHOOSE k \in 1..Len(Categories) : Categories[k] = cat

\* C9: no slot gets a category whose weight is zero in the vector of the tier:
\* none of write, dml_nontrans, ddl under the read-only tier, no ddl under the
\* reduced tier.
C9_ZeroWeightNeverAssigned ==
    \A i \in 1..MaxThreads :
        (i <= num_threads /\ Constructed(i) /\ complexity \in Tiers) =>
            /\ worker[i].category \in Range(Categories)
            /\ Weights(complexity)[CategoryIndex(worker[i].category)] > 0
            /\ complexity = ComplexityRead
                  => worker[i].category \in {"read", "fetch"}
            /\ complexity = ComplexityDML => worker[i].category # "ddl"

\* C9 witness: a read-only run has built all its slots, more than one, and a
\* draw has landed on the last category of non-zero weight
C9_Witness ==
    /\ complexity = ComplexityRead
    /\ num_threads > 1
    /\ \A i \in 1..num_threads : Constructed(i)
    /\ \E i \in 1..num_threads : worker[i].category = "fetch"

\* the count all workers of the population hold for a histogram key
PopulationCount(key) ==
    SumOver([w \in Range(workers) |-> worker[w].ignored_errors[key]],
            Range(workers))

\* C10: once the histograms are aggregated, the combined histogram holds for
\* every (error kind, operation class) the sum of the counts of the workers,
\* and num_failures is the sum of the entries of the combined histogram.
C10_HistogramIsExactSum ==
    pc \in {"summary", "done"} =>
        /\ \A key \in HistKeys : ignored_errors[key] = PopulationCount(key)
        /\ num_failures = SumOver(ignored_errors, HistKeys)
        /\ num_failures =
              SumOver([key \in HistKeys |-> PopulationCount(key)], HistKeys)

\* C10 witness: the summary is printed after two workers have counted the same
\* (error kind, operation class) and a third entry is zero
C10_Witness ==
    /\ pc = "done"
    /\ \E key \in HistKeys : \E v, w \in Range(workers) :
          /\ v # w
          /\ worker[v].ignored_errors[key] > 0
          /\ worker[w].ignored_errors[key] > 0
          /\ ignored_errors[key] = 2

\* the scenarios that add a worker of their own to the population
ExtraWorkerScenarios == {ScenarioCancel, ScenarioKill, ScenarioBackupRestore}

\* the threads that have been started
Started(w) == worker[w].state \notin {"absent", "constructed"}

\* C11: while the population is built every started thread belongs to one
\* worker of the list and at most the newest worker has no thread yet; once the
\* monitor loop is reached the list holds num_threads workers for regression
\* and rename and num_threads + 1 for cancel, kill and backup-restore, the
\* extra worker has one operation with the weights [1], and the threads
\* started are one per worker, in the order of the list.
C11_PopulationSize ==
    /\ Cardinality(Range(workers)) = Len(workers)
    /\ Len(threads) <= Len(workers)
    /\ Len(workers) <= Len(threads) + 1
    /\ threads = SubSeq(workers, 1, Len(threads))
    /\ \A w \in WorkerIds : Started(w) <=> w \in Range(threads)
    /\ \A w \in WorkerIds : Constructed(w) <=> w \in Range(workers)
    /\ pc = "monitor" =>
          /\ scenario \in {ScenarioRegression, ScenarioRename}
                => Len(workers) = num_threads
          /\ scenario \in ExtraWorkerScenarios
                => /\ Len(workers) = num_threads + 1
                   /\ workers[Len(workers)] = ScenarioWorkerId
                   /\ worker[ScenarioWorkerId].category
                         = ScenarioCategory(scenario)
                   /\ Len(ActionClasses(worker[ScenarioWorkerId].category))
                         = 1
                   /\ ActionWeights(worker[ScenarioWorkerId].category)
                         = <<1>>
          /\ scenario \in ExtraWorkerScenarios
                         \cup {ScenarioRegression, ScenarioRename}
          /\ threads = workers
          /\ \A j \in 1..num_threads :
                /\ workers[j] = j
                /\ worker[j].category \in Range(Categories)
                /\ ~worker[j].system

\* C11 witness: the monitor loop is reached with the largest base population
\* and the worker of the kill scenario
C11_Witness ==
    /\ pc = "monitor"
    /\ scenario = ScenarioKill
    /\ num_threads = MaxThreads
    /\ Len(workers) = MaxThreads + 1
    /\ Len(threads) = MaxThreads + 1

\* the databases of the run
Provisioned == 1..num_databases

\* C12: a database changes hands in one order only: the object is built at the
\* start, created and given its relations while run() provisions, dropped
\* while run() tears down, and never touched again, so each step happens once;
\* a run that gets past teardown, after the deadline or after an interrupt,
\* has dropped every database it provisioned and nothing else.
C12_CreatedOnceDroppedOnce ==
    [][/\ \A d \in DatabaseIds :
             database'[d] # database[d] =>
                \/ pc = "start" /\ database[d] = "none"
                      /\ database'[d] = "object" /\ d \in Provisioned
                \/ pc = "provision" /\ database[d] = "object"
                      /\ database'[d] = "created" /\ d \in Provisioned
                \/ pc = "provision" /\ database[d] = "created"
                      /\ database'[d] = "provisioned" /\ d \in Provisioned
                \/ pc = "teardown" /\ database[d] = "provisioned"
                      /\ database'[d] = "dropped" /\ d \in Provisioned
       /\ pc \in {"aggregate", "summary", "done"} =>
             /\ raised = "none"
             /\ \A d \in DatabaseIds :
                   database[d] = IF d \in Provisioned THEN "dropped"
                                 ELSE "none"]_vars

\* C12 witness: a run of several databases was interrupted and has printed
\* its summary with all of them dropped
C12_Witness ==
    /\ pc = "done"
    /\ caught = "KeyboardInterrupt"
    /\ num_databases = MaxDatabases
    /\ \A d \in Provisioned : database[d] = "dropped"

\* C13: the handler of an interrupt caught in the monitor loop writes the
\* current time to the deadline of every worker of the population before run()
\* goes on; from then on run() only joins, drops the databases, aggregates and
\* prints: the exception of the fatal branch is never raised, even when a
\* thread had been found dead, and the only exception that can still leave
\* run() is that of a failing drop.  A run that ends this way has joined every
\* thread, dropped every database and printed the summary.
C13_InterruptIsGraceful ==
    [][/\ (pc = "interrupted" /\ idx' = idx + 1)
            => /\ worker'[workers[idx]].end_time = now
               /\ worker'[workers[idx]].forced = "interrupt"
       /\ (pc = "interrupted" /\ pc' # "interrupted")
            => /\ pc' = "join"
               /\ \A w \in Range(workers) :
                     /\ worker[w].forced = "interrupt"
                     /\ worker[w].end_time <= now
       /\ caught = "KeyboardInterrupt"
            => /\ pc \in {"interrupted", "raised"} \/ NormalPath
               /\ raised # "ThreadFailed" /\ raised' # "ThreadFailed"
               /\ pc' = "raised" => pc \in {"teardown", "raised"}
               /\ pc = "join" => pc' \in {"join", "teardown"}
               /\ pc = "teardown" => pc' \in {"teardown", "aggregate", "raised"}
               /\ pc = "aggregate" => pc' \in {"aggregate", "summary"}
               /\ pc = "summary" => pc' \in {"summary", "done"}
               /\ pc = "done"
                     => /\ printed
                        /\ raised = "none"
                        /\ \A w \in Range(threads) : ~IsAlive(w)
                        /\ \A d \in Provisioned : database[d] = "dropped"
       /\ caught' = "KeyboardInterrupt" /\ caught = "none"
            => InTry /\ pc' = "interrupted"]_vars

\* C13 witness: the interrupt came while the fatal branch was forcing the
\* deadlines for a dead thread, and run() has printed its summary all the same
C13_Witness ==
    /\ pc = "done"
    /\ caught = "KeyboardInterrupt"
    /\ failed_thread # 0
    /\ printed
    /\ \A w \in Range(workers) : worker[w].forced = "interrupt"

\* C14: under a complexity run() has no branch for, no Worker is ever built
\* and no thread ever started: run() gets as far as the first slot of the
\* population and leaves with the ValueError there, unless bootstrap or
\* provisioning has failed before.
C14_UnknownComplexityBeforeWorkers ==
    complexity = ComplexityOther =>
        /\ \A w \in WorkerIds : worker[w].state = "absent"
        /\ workers = <<>>
        /\ threads = <<>>
        /\ weights = <<>>
        /\ pc \in {"start", "bootstrap", "provision", "construct", "raised"}
        /\ pc = "construct" => idx = 1
        /\ pc = "raised" => raised \in {"QueryError", "ValueError"}
        /\ raised = "ValueError"
              => \A d \in Provisioned : database[d] = "provisioned"

\* C14 witness: the ValueError of the unknown complexity has left a run of
\* several slots with a scenario worker to come
C14_Witness ==
    /\ complexity = ComplexityOther
    /\ raised = "ValueError"
    /\ num_threads = MaxThreads
    /\ scenario = ScenarioCancel

\* C15: when the assertion of the kill or backup-restore scenario fails for
\* want of a composition, the scenario worker has not been built and no thread
\* has been started.
C15_MissingCompositionBeforeThreads ==
    (scenario \in {ScenarioKill, ScenarioBackupRestore}
        /\ raised = "AssertionError")
    => /\ ~Constructed(ScenarioWorkerId)
       /\ threads = <<>>
       /\ \A w \in WorkerIds : ~Started(w)

\* C16: a database is created only when every database before it has its
\* relations, and gets its relations only after it was created; a Worker
\* exists only when every database of the run has its relations; and when a
\* statement of bootstrap or provisioning has failed, no Worker was built and
\* no thread started.
C16_ProvisioningBeforeWorkers ==
    [][/\ \A d \in DatabaseIds :
             /\ (database'[d] = "created" /\ database[d] # "created")
                   => /\ database[d] = "object"
                      /\ \A e \in 1..(d - 1) : database[e] = "provisioned"
             /\ (database'[d] = "provisioned" /\ database[d] # "provisioned")
                   => /\ database[d] = "created"
                      /\ \A e \in 1..(d - 1) : database[e] = "provisioned"
             /\ database[d] \in {"created", "provisioned"}
                   => \A e \in 1..(d - 1) : database[e] = "provisioned"
       /\ (\E w \in WorkerIds : Constructed(w))
             => \A d \in Provisioned : database[d] = "provisioned"
       /\ (\E w \in WorkerIds : ~Constructed(w) /\ Constructed(w)')
             => \A d \in Provisioned : database[d] = "provisioned"
       /\ raised = "QueryError"
             => /\ workers = <<>> /\ threads = <<>>
                /\ \A w \in WorkerIds : worker[w].state = "absent"
                /\ pc = "raised" /\ pc' = "raised"]_vars

\* C16 witness: the first thread runs, with several databases provisioned
C16_Witness ==
    /\ num_databases = MaxDatabases
    /\ MaxDatabases > 1
    /\ Started(1)
    /\ \A d \in Provisioned : database[d] = "provisioned"

\* C17: from the first drop to the summary no thread of the population is
\* alive: no database is dropped, and no histogram of a worker read, while a
\* worker is checking its deadline or has a call in flight, and a worker that
\* was found terminated stays so.
C17_TeardownAfterAllThreads ==
    [][/\ pc \in {"teardown", "aggregate", "summary", "done"}
            => /\ \A w \in WorkerIds : ~IsAlive(w) /\ ~IsAlive(w)'
               /\ \A w \in Range(workers) :
                     worker[w].state \in {"stopped", "failed"}
               /\ worker' = worker
       /\ (\E d \in DatabaseIds : database'[d] = "dropped")
            => \A w \in WorkerIds : ~IsAlive(w)
       /\ ignored_errors' # ignored_errors
            => \A w \in WorkerIds : ~IsAlive(w)]_vars

\* C17 witness: teardown is about to drop its first database after the largest
\* population, scenario worker included, ran past the deadline and stopped
C17_Witness ==
    /\ pc = "teardown"
    /\ idx = 1
    /\ caught = "none"
    /\ num_threads = MaxThreads
    /\ HasScenarioWorker
    /\ \A w \in Range(workers) : worker[w].state = "stopped"
    /\ \E w \in Range(workers) : worker[w].num_queries > 0

\* C18: a run that has reached the monitor loop gets to the end of run() with
\* the summary printed, every thread terminated and every database dropped,
\* unless a worker terminates with an unrecognized error, an interrupt is
\* caught or a drop fails.
C18_RunFinishes ==
    (pc = "monitor") ~>
        \/ /\ pc = "done"
           /\ printed
           /\ \A w \in Range(threads) : ~IsAlive(w)
           /\ \A d \in Provisioned : database[d] = "dropped"
        \/ \E w \in WorkerIds : worker[w].state = "failed"
        \/ caught # "none"
        \/ raised = "QueryError"

\* every increment the workers have made to their counters so far: those a
\* report has moved into num_queries and those still held by the counters
Increments ==
    num_queries
      + SumOver([w \in Range(workers) |-> worker[w].num_queries],
                Range(workers))

\* C19: the total printed with the summary is the number of increments the
\* workers have made to their counters in the whole run.
C19_PrintedTotalIsEveryIncrement ==
    printed => num_queries = Increments

\* C20: the thread the fatal branch names has terminated with an unrecognized
\* error; a worker that stopped because it saw the deadline is never named.
C20_FatalOnlyForFailedWorker ==
    failed_thread # 0 =>
        /\ worker[failed_thread].state = "failed"
        /\ \E w \in Range(workers) : worker[w].state = "failed"

====
